---- MODULE Spec2Model ----
(***************************************************************************)
(* Model of app/xdp_libbpf/src/bpf/xdp_hello.bpf.c: the XDP program        *)
(* xdp_hello, run once per received frame on any CPU, and the              *)
(* BPF_MAP_TYPE_RINGBUF map xdp_events through which it hands fixed-size   *)
(* struct xdp_event records to one user-space consumer.                    *)
(*                                                                         *)
(* A 32-bit word is kept as an integer; every byte of a modelled frame     *)
(* that ends up in a 32-bit value is below 128, so that the values stay    *)
(* inside the integers the model checker can represent.  A ring memory     *)
(* cell is the record [v, busy]: busy stands for bit 31 of the word        *)
(* (BPF_RINGBUF_BUSY_BIT), v for the remaining bits.                       *)
(***************************************************************************)
EXTENDS Integers, Sequences, FiniteSets, TLC

\* ------------------------------------------------------------- bounds
\* Number of CPUs that may run xdp_hello at the same time.
NumProducers == 2
\* Number of frames the ingress hands to the program in one run.
MaxInvocations == 3
\* Largest frame length of the decoder runs (14 + 15*4 + 20 = 94 lets a
\* TCP header after the longest IPv4 header fit).
MaxFrameLen == 94
\* Byte size of the ring's data area, scaled down from the 8192 of the map
\* definition so that the ring holds two records and "full" is reached.
max_entries == 128

\* ------------------------------------------------------------- constants of the program
ETH_HLEN == 14
ETH_P_IP == 2048
IPPROTO_TCP == 6
IPPROTO_UDP == 17
sizeof_iphdr == 20
sizeof_tcphdr == 20
sizeof_udphdr == 8
BPF_RINGBUF_HDR_SZ == 8
NULL == -1
XDP_PASS == "XDP_PASS"
XDP_DROP == "XDP_DROP"
NoVerdict == "none"

RoundUp8(n) == ((n + 7) \div 8) * 8

\* struct xdp_event: the fields with their byte offsets inside the struct.
EventFields ==
    << [name |-> "timestamp",  off |-> 0],
       [name |-> "ifindex",    off |-> 8],
       [name |-> "protocol",   off |-> 12],
       [name |-> "src_ip",     off |-> 16],
       [name |-> "dst_ip",     off |-> 20],
       [name |-> "src_port",   off |-> 24],
       [name |-> "dst_port",   off |-> 26],
       [name |-> "pkt_len",    off |-> 28],
       [name |-> "eth_proto0", off |-> 32],
       [name |-> "eth_proto1", off |-> 33] >>

NumFields == Len(EventFields)
FieldIndex(n) == CHOOSE k \in 1..NumFields : EventFields[k].name = n
FieldNames == {EventFields[k].name : k \in 1..NumFields}

\* sizeof(struct xdp_event): 34 bytes of fields, padded to the 8-byte
\* alignment of its __u64 member.
sizeof_xdp_event == RoundUp8(EventFields[NumFields].off + 1)

\* ------------------------------------------------------------- frames
\* A frame is given by its length, the 16-bit Ethernet type as it appears on
\* the wire (big-endian), the ihl nibble, the IPv4 protocol byte and the
\* ingress interface; FrameByte gives the byte at every index.  ports is
\* either empty or the pair of port numbers a sender put, big-endian, right
\* behind a 20-byte IPv4 header; all other bytes follow Pattern.
Pattern(i) == (i * 37 + 11) % 128

PortsOff == ETH_HLEN + sizeof_iphdr

FrameByte(f, i) ==
    CASE i = 12 -> f.ethType \div 256
      [] i = 13 -> f.ethType % 256
      [] i = 14 -> 64 + f.ihl
      [] i = 23 -> f.proto
      [] f.ports # << >> /\ i = PortsOff     -> f.ports[1] \div 256
      [] f.ports # << >> /\ i = PortsOff + 1 -> f.ports[1] % 256
      [] f.ports # << >> /\ i = PortsOff + 2 -> f.ports[2] \div 256
      [] f.ports # << >> /\ i = PortsOff + 3 -> f.ports[2] % 256
      [] OTHER  -> Pattern(i)

NoFrame == [len |-> 0, ethType |-> 0, ihl |-> 0, proto |-> 0, ifindex |-> 0,
            ports |-> << >>]

\* A 16-bit load from the frame in the byte order of the host.
LoadU16(le, f, off) ==
    IF le THEN FrameByte(f, off) + 256 * FrameByte(f, off + 1)
          ELSE 256 * FrameByte(f, off) + FrameByte(f, off + 1)

\* A 32-bit load from the frame in the byte order of the host.
LoadU32(le, f, off) ==
    IF le THEN FrameByte(f, off) + 256 * FrameByte(f, off + 1)
               + 65536 * FrameByte(f, off + 2) + 16777216 * FrameByte(f, off + 3)
          ELSE 16777216 * FrameByte(f, off) + 65536 * FrameByte(f, off + 1)
               + 256 * FrameByte(f, off + 2) + FrameByte(f, off + 3)

\* bpf_ntohs: swaps the two bytes on a little-endian host, identity on a
\* big-endian one.
bpf_ntohs(le, x) == IF le THEN (x % 256) * 256 + (x \div 256) ELSE x

\* iph->ihl: the low nibble of the first byte of the IPv4 header.
Ihl(f) == FrameByte(f, ETH_HLEN) % 16
\* A slip: the time-to-live byte taken for the protocol.
IpProtocol_ttl(f) == FrameByte(f, ETH_HLEN + 8)

\* iph->protocol: byte 9 of the IPv4 header.
IpProtocol(f) == FrameByte(f, ETH_HLEN + 9)
\* A slip: an ihl below the 5 words of the fixed header taken for 5.
TransportOff_atLeastFive(f) == ETH_HLEN + (IF Ihl(f) < 5 THEN 5 ELSE Ihl(f)) * 4

\* (void *)iph + iph->ihl * 4, as an offset into the frame.
TransportOff(f) == ETH_HLEN + Ihl(f) * 4

\* A slip: every transport header is checked against the size of the UDP one.
TransportFits_udpSize(f, size) == ~(TransportOff(f) + sizeof_udphdr > f.len)

\* A slip: the transport header is taken to follow a 20-byte IPv4 header,
\* whatever ihl says.
TransportFits_fixedIhl(f, size) == ~(ETH_HLEN + sizeof_iphdr + size > f.len)

\* A slip: the Ethernet header accepted although its last byte is missing.
EthFits_offByOne(f) == ~(ETH_HLEN > f.len + 1)

\* The pointer comparisons against data_end.
EthFits(f) == ~(ETH_HLEN > f.len)
IpFits(f) == ~(ETH_HLEN + sizeof_iphdr > f.len)
TransportFits(f, size) == ~(TransportOff(f) + size > f.len)

\* A slip: the Ethernet type compared without bpf_ntohs.
IsIPv4_noSwap(le, f) == LoadU16(le, f, 12) = ETH_P_IP

\* bpf_ntohs(eth->h_proto) == ETH_P_IP
IsIPv4(le, f) == bpf_ntohs(le, LoadU16(le, f, 12)) = ETH_P_IP

\* eth->h_proto >> 8 narrowed to __u8, and eth->h_proto & 0xFF.
EthProtoByte0(h) == (h \div 256) % 256
EthProtoByte1(h) == h % 256


\* A slip: the truncated-transport returns drop the frame.
ReturnValue_dropTruncated(site) == IF site \in {"tcp", "udp"} THEN XDP_DROP ELSE XDP_PASS

\* The value each return statement of xdp_hello hands back, by the stage
\* that returns: "eth", "ip", "tcp", "udp" are the early returns, "end" the
\* return at the end of the function.
ReturnValue(site) == XDP_PASS

\* ------------------------------------------------------------- the ring buffer
\* Bytes one record takes in the ring: the 8-byte header and the sample,
\* rounded up to 8.
RecordLen(size) == RoundUp8(size + BPF_RINGBUF_HDR_SZ)

\* A slip: no test at all, the producer overwrites what is in its way.
RingHasRoom_overwrite(prod, cons, len) == TRUE

\* A slip: the test allows one record more than the data area holds.
RingHasRoom_oneMore(prod, cons, len) == ~((prod + len) - cons > max_entries - 1 + len)

\* The reservation succeeds unless the new producer position would run more
\* than the data area ahead of the consumer position.
RingHasRoom(prod, cons, len) == ~((prod + len) - cons > max_entries - 1)

\* A slip: the producer position moves by the record without its header.
NewProducerPos_noHeader(prod, len) == prod + len - BPF_RINGBUF_HDR_SZ

\* The producer position after a successful reservation.
NewProducerPos(prod, len) == prod + len

\* A slip: the reservation leaves the busy bit clear.
ReservedHeader_notBusy(size) == [v |-> size, busy |-> FALSE]

\* The header a reservation writes: the sample length with the busy bit set.
ReservedHeader(size) == [v |-> size, busy |-> TRUE]

\* A slip: a submit that leaves the busy bit set.
SubmittedHeader_stillBusy(hdr) == hdr

\* The header after submit: the busy bit cleared.
SubmittedHeader(hdr) == [v |-> hdr.v, busy |-> FALSE]

\* A slip: the consumer does not look at the busy bit.
SampleReady_ignoreBusy(hdr) == TRUE

\* The consumer takes the record at its position only when its header no
\* longer has the busy bit.
SampleReady(hdr) == ~hdr.busy

\* A slip: the consumer moves by the sample length, without the header.
NextConsumerPos_noHeader(pos, hdr) == pos + hdr.v

\* The consumer position after the record with header hdr at pos was taken.
NextConsumerPos(pos, hdr) == pos + RecordLen(hdr.v)

\* The physical address of logical position pos (pos & mask).
Phys(pos) == pos % max_entries

\* ------------------------------------------------------------- state
\* An invocation of xdp_hello is named by its number in the order of the
\* frames' arrival; which CPU runs it does not matter to the program (it has
\* no per-CPU state), only that at most NumProducers run at the same time.
VARIABLES
    littleEndian,   \* byte order of the host the program was built for
    arrivals,       \* frames the ingress has still to hand over
    inv,            \* the invocations so far: locals, position, and history
    producer_pos,   \* ring: logical producer position
    consumer_pos,   \* ring: logical consumer position
    data,           \* ring: memory cells of the data area, by physical address
    clock,          \* the monotonic clock (bpf_ktime_get_ns)
    commitLog,      \* history: invocation ids in the order of their submits
    delivered       \* history: what the consumer received, in order

vars == << littleEndian, arrivals, inv, producer_pos, consumer_pos, data,
           clock, commitLog, delivered >>

ring == << producer_pos, consumer_pos, data >>

ZeroCell == [v |-> 0, busy |-> FALSE]
Cell(x) == [v |-> x, busy |-> FALSE]
ReadCell(mem, a) == IF a \in DOMAIN mem THEN mem[a] ELSE ZeroCell
WriteCell(mem, a, c) == (a :> c) @@ mem

\* A fresh invocation on frame f.  pc, src_port, dst_port, event and field
\* are the program's position and locals; reads, proven, reserves, ev,
\* commits and verdict record what the invocation has done, and resClock
\* holds what the clock showed when its reserve returned a slot, until the
\* invocation reads the clock itself.
NewInvocation(f) ==
    [pc |-> "eth", frame |-> f, src_port |-> 0, dst_port |-> 0,
     event |-> NULL, field |-> 0, reads |-> {}, proven |-> {},
     reserves |-> 0, ev |-> [n \in FieldNames |-> NULL], commits |-> 0,
     verdict |-> NoVerdict, resClock |-> NULL]

Ids == DOMAIN inv
Running == {i \in Ids : inv[i].pc # "done"}

\* ------------------------------------------------------------- frames of the runs
EthTypes == {ETH_P_IP, 2054, 8}
Protocols == {1, IPPROTO_TCP, IPPROTO_UDP}

AllFrames ==
    [len : 0..MaxFrameLen, ethType : EthTypes, ihl : 0..15, proto : Protocols,
     ifindex : {1}, ports : {<< >>}]

\* The frame of a DNS answer: 60 bytes, UDP, from port 53 to port 12345.
DnsFrame == [len |-> 60, ethType |-> ETH_P_IP, ihl |-> 5, proto |-> IPPROTO_UDP,
             ifindex |-> 1, ports |-> << 53, 12345 >>]

TcpFrame == [len |-> 54, ethType |-> ETH_P_IP, ihl |-> 5, proto |-> IPPROTO_TCP, ifindex |-> 1,
             ports |-> << >>]
ShortFrame == [len |-> 10, ethType |-> ETH_P_IP, ihl |-> 5, proto |-> IPPROTO_TCP, ifindex |-> 3,
               ports |-> << >>]
ConcFrames == {TcpFrame, ShortFrame}

\* ------------------------------------------------------------- xdp_hello, step by step
\* return ReturnValue(site);
Return(i, site) ==
    inv' = [inv EXCEPT ![i].pc = "done", ![i].verdict = ReturnValue(site)]

\* The ingress runs xdp_hello on a free CPU for the next frame
\* (data and data_end are taken from ctx).
Start ==
    /\ Cardinality(Running) < NumProducers
    /\ arrivals # << >>
    /\ arrivals' = Tail(arrivals)
    /\ inv' = Append(inv, NewInvocation(Head(arrivals)))
    /\ UNCHANGED << littleEndian, ring, clock, commitLog, delivered >>

\* Ethernet header: the bounds check, then the test of the type.
ParseEth(i) ==
    LET f == inv[i].frame IN
    /\ inv[i].pc = "eth"
    /\ IF ~EthFits(f)
         THEN Return(i, "eth")
         ELSE inv' = [inv EXCEPT
                    ![i].proven = @ \cup {<< 0, ETH_HLEN >>},
                    ![i].reads = @ \cup {12, 13},
                    ![i].pc = IF IsIPv4(littleEndian, f) THEN "ip" ELSE "ret"]
    /\ UNCHANGED << littleEndian, arrivals, ring, clock, commitLog, delivered >>

\* IPv4 header: the bounds check.
ParseIp(i) ==
    LET f == inv[i].frame IN
    /\ inv[i].pc = "ip"
    /\ IF ~IpFits(f)
         THEN Return(i, "ip")
         ELSE inv' = [inv EXCEPT
                    ![i].proven = @ \cup {<< ETH_HLEN, ETH_HLEN + sizeof_iphdr >>},
                    ![i].pc = "l4"]
    /\ UNCHANGED << littleEndian, arrivals, ring, clock, commitLog, delivered >>

\* bpf_ntohs of a 16-bit port field of the frame.
\* A slip: the port as the 16-bit load gives it, without bpf_ntohs.
PortAt_raw(le, f, off) == LoadU16(le, f, off)

\* bpf_ntohs(tcph->source), bpf_ntohs(tcph->dest) and the UDP likes.
PortAt(le, f, off) == bpf_ntohs(le, LoadU16(le, f, off))

\* A transport header of `size` bytes at iph + ihl*4: the bounds check,
\* then the two ports, converted to host order.
Ports(i, size, site) ==
    LET f == inv[i].frame
        off == TransportOff(f)
    IN  IF ~TransportFits(f, size)
          THEN inv' = [inv EXCEPT
                     ![i].reads = @ \cup {ETH_HLEN + 9, ETH_HLEN},
                     ![i].pc = "done", ![i].verdict = ReturnValue(site)]
          ELSE inv' = [inv EXCEPT
                     ![i].proven = @ \cup {<< off, off + size >>},
                     ![i].reads = @ \cup {ETH_HLEN + 9, ETH_HLEN} \cup (off..(off + 3)),
                     ![i].src_port = PortAt(littleEndian, f, off),
                     ![i].dst_port = PortAt(littleEndian, f, off + 2),
                     ![i].pc = "reserve"]

\* Transport header: TCP and UDP read their ports; any other protocol
\* leaves the ports 0.
ParseTransport(i) ==
    LET f == inv[i].frame IN
    /\ inv[i].pc = "l4"
    /\ IF IpProtocol(f) = IPPROTO_TCP THEN Ports(i, sizeof_tcphdr, "tcp")
       ELSE IF IpProtocol(f) = IPPROTO_UDP THEN Ports(i, sizeof_udphdr, "udp")
       ELSE inv' = [inv EXCEPT ![i].reads = @ \cup {ETH_HLEN + 9},
                               ![i].pc = "reserve"]
    /\ UNCHANGED << littleEndian, arrivals, ring, clock, commitLog, delivered >>

\* A slip: a reserve that waits until the ring has room for the record.
Reserve_blocking(i) ==
    LET len == RecordLen(sizeof_xdp_event) IN
    /\ inv[i].pc = "reserve"
    /\ RingHasRoom(producer_pos, consumer_pos, len)
    /\ data' = WriteCell(data, Phys(producer_pos), ReservedHeader(sizeof_xdp_event))
    /\ producer_pos' = NewProducerPos(producer_pos, len)
    /\ inv' = [inv EXCEPT ![i].event = producer_pos, ![i].pc = "write",
                          ![i].field = 1, ![i].reserves = @ + 1,
                          ![i].resClock = clock]
    /\ UNCHANGED << littleEndian, arrivals, consumer_pos, clock, commitLog, delivered >>

\* bpf_ringbuf_reserve(&xdp_events, sizeof(*event), 0) and the test of its
\* result.
Reserve(i) ==
    LET len == RecordLen(sizeof_xdp_event) IN
    /\ inv[i].pc = "reserve"
    /\ IF RingHasRoom(producer_pos, consumer_pos, len)
         THEN /\ data' = WriteCell(data, Phys(producer_pos), ReservedHeader(sizeof_xdp_event))
              /\ producer_pos' = NewProducerPos(producer_pos, len)
              /\ inv' = [inv EXCEPT ![i].event = producer_pos, ![i].pc = "write",
                                    ![i].field = 1, ![i].reserves = @ + 1,
                                    ![i].resClock = clock]
         ELSE /\ inv' = [inv EXCEPT ![i].event = NULL, ![i].pc = "ret",
                                    ![i].reserves = @ + 1]
              /\ UNCHANGED << data, producer_pos >>
    /\ UNCHANGED << littleEndian, arrivals, consumer_pos, clock, commitLog, delivered >>

\* A slip: the length without the Ethernet header.
PktLen_payload(f) == f.len - ETH_HLEN

\* data_end - data
PktLen(f) == f.len

\* The value the k-th assignment to *event stores for frame f with the
\* locals sport and dport, given the clock reading t.
EventValue(le, f, sport, dport, k, t) ==
    LET h_proto == LoadU16(le, f, 12)
    IN  CASE k = 1 -> t
          [] k = 2 -> f.ifindex
          [] k = 3 -> IpProtocol(f)
          [] k = 4 -> LoadU32(le, f, ETH_HLEN + 12)
          [] k = 5 -> LoadU32(le, f, ETH_HLEN + 16)
          [] k = 6 -> sport
          [] k = 7 -> dport
          [] k = 8 -> PktLen(f)
          [] k = 9 -> EthProtoByte0(h_proto)
          [] k = 10 -> EthProtoByte1(h_proto)

FieldValue(i, k, t) ==
    EventValue(littleEndian, inv[i].frame, inv[i].src_port, inv[i].dst_port, k, t)

\* The frame bytes the k-th assignment reads.
FieldReads(k) ==
    CASE k = 3 -> {ETH_HLEN + 9}
      [] k = 4 -> (ETH_HLEN + 12)..(ETH_HLEN + 15)
      [] k = 5 -> (ETH_HLEN + 16)..(ETH_HLEN + 19)
      [] k \in {9, 10} -> {12, 13}
      [] OTHER -> {}

\* The physical address of field k of the sample whose record starts at
\* logical position pos.
FieldAddr(pos, k) == Phys(pos + BPF_RINGBUF_HDR_SZ + EventFields[k].off)

\* A slip: the clock read without time having passed since the last reading.
KtimeGetNs_stale(now, k) == now

\* bpf_ktime_get_ns(), called by the first assignment only: the clock has
\* nanosecond resolution, so every reading is later than the one before.
KtimeGetNs(now, k) == IF k = 1 THEN now + 1 ELSE now

\* One assignment event->field = value; the first one samples the clock.
WriteField(i) ==
    LET k == inv[i].field
        t == KtimeGetNs(clock, k)
    IN
    /\ inv[i].pc = "write"
    /\ clock' = t
    /\ data' = WriteCell(data, FieldAddr(inv[i].event, k), Cell(FieldValue(i, k, t)))
    /\ inv' = [inv EXCEPT ![i].ev[EventFields[k].name] = FieldValue(i, k, t),
                          ![i].reads = @ \cup FieldReads(k),
                          ![i].resClock = IF k = 1 THEN NULL ELSE @,
                          ![i].field = IF k = NumFields THEN 0 ELSE k + 1,
                          ![i].pc = IF k = NumFields THEN "submit" ELSE "write"]
    /\ UNCHANGED << littleEndian, arrivals, producer_pos, consumer_pos, commitLog, delivered >>

\* bpf_ringbuf_submit(event, 0).
Submit(i) ==
    LET a == Phys(inv[i].event) IN
    /\ inv[i].pc = "submit"
    /\ data' = WriteCell(data, a, SubmittedHeader(ReadCell(data, a)))
    /\ commitLog' = Append(commitLog, i)
    /\ inv' = [inv EXCEPT ![i].commits = @ + 1, ![i].pc = "ret"]
    /\ UNCHANGED << littleEndian, arrivals, producer_pos, consumer_pos, clock, delivered >>

\* bpf_printk and the final return.
Finish(i) ==
    /\ inv[i].pc = "ret"
    /\ Return(i, "end")
    /\ UNCHANGED << littleEndian, arrivals, ring, clock, commitLog, delivered >>

\* ------------------------------------------------------------- the consumer
\* The sample the consumer reads from the record at logical position pos.
Sample(mem, pos) ==
    [n \in FieldNames |-> ReadCell(mem, FieldAddr(pos, FieldIndex(n))).v]

\* The user-space consumer takes the record at its position, if there is
\* one and it is no longer busy, and moves its position past it.
Consume ==
    LET hdr == ReadCell(data, Phys(consumer_pos)) IN
    /\ consumer_pos < producer_pos
    /\ SampleReady(hdr)
    /\ delivered' = Append(delivered, [pos |-> consumer_pos, ev |-> Sample(data, consumer_pos)])
    /\ consumer_pos' = NextConsumerPos(consumer_pos, hdr)
    /\ UNCHANGED << littleEndian, arrivals, inv, producer_pos, data, clock, commitLog >>

\* ------------------------------------------------------------- initial states
EmptyRing ==
    /\ inv = << >>
    /\ producer_pos = 0
    /\ consumer_pos = 0
    /\ data = << >>
    /\ clock = 0
    /\ commitLog = << >>
    /\ delivered = << >>

\* The invocation that has run to its end on TcpFrame, with its record at
\* logical position pos and the clock reading t.
FilledInvocation(le, pos, t) ==
    LET f == TcpFrame
        off == TransportOff(f)
        sport == PortAt(le, f, off)
        dport == PortAt(le, f, off + 2)
    IN  [pc |-> "done", frame |-> f, src_port |-> sport, dst_port |-> dport,
         event |-> pos, field |-> 0,
         reads |-> {12, 13, ETH_HLEN, ETH_HLEN + 9} \cup (off..(off + 3))
                   \cup UNION {FieldReads(k) : k \in 1..NumFields},
         proven |-> {<< 0, ETH_HLEN >>, << ETH_HLEN, ETH_HLEN + sizeof_iphdr >>,
                     << off, off + sizeof_tcphdr >>},
         reserves |-> 1,
         ev |-> [n \in FieldNames |-> EventValue(le, f, sport, dport, FieldIndex(n), t)],
         commits |-> 1, verdict |-> XDP_PASS, resClock |-> NULL]

\* The number of records the ring holds when no reservation succeeds any more.
FillCount == (max_entries - 1) \div RecordLen(sizeof_xdp_event)

\* The memory cells of the committed record of FilledInvocation(le, pos, t).
FilledCells(le, pos, t) ==
    LET r == FilledInvocation(le, pos, t)
        hdr == Phys(pos) :> SubmittedHeader(ReservedHeader(sizeof_xdp_event))
    IN  hdr @@ [a \in {FieldAddr(pos, k) : k \in 1..NumFields} |->
                   Cell(r.ev[EventFields[CHOOSE k \in 1..NumFields : FieldAddr(pos, k) = a].name])]

RECURSIVE FilledData(_, _)
FilledData(le, n) ==
    IF n = 0 THEN << >>
    ELSE FilledCells(le, (n - 1) * RecordLen(sizeof_xdp_event), n) @@ FilledData(le, n - 1)

\* The state after FillCount invocations on TcpFrame have run one after the
\* other while the consumer was not scheduled: the ring is full of
\* committed, unread records.
FullRing ==
    /\ inv = [n \in 1..FillCount |->
                 FilledInvocation(littleEndian, (n - 1) * RecordLen(sizeof_xdp_event), n)]
    /\ producer_pos = FillCount * RecordLen(sizeof_xdp_event)
    /\ consumer_pos = 0
    /\ data = FilledData(littleEndian, FillCount)
    /\ clock = FillCount
    /\ commitLog = [n \in 1..FillCount |-> n]
    /\ delivered = << >>

\* Concurrent runs: MaxInvocations frames, each one of ConcFrames, on an
\* empty ring.
Init ==
    /\ littleEndian \in BOOLEAN
    /\ arrivals \in [1..MaxInvocations -> ConcFrames]
    /\ EmptyRing

\* Decoder runs: one frame, of any length, Ethernet type, ihl and protocol,
\* or the DNS frame, on an empty ring or on a full one.
InitDecode ==
    /\ littleEndian \in BOOLEAN
    /\ arrivals \in {<< f >> : f \in AllFrames \cup {DnsFrame}}
    /\ EmptyRing \/ FullRing

Next ==
    \/ Start
    \/ \E i \in Ids : ParseEth(i)
    \/ \E i \in Ids : ParseIp(i)
    \/ \E i \in Ids : ParseTransport(i)
    \/ \E i \in Ids : Reserve(i)
    \/ \E i \in Ids : WriteField(i)
    \/ \E i \in Ids : Submit(i)
    \/ \E i \in Ids : Finish(i)
    \/ Consume

Spec == Init /\ [][Next]_vars

SpecDecode == InitDecode /\ [][Next]_vars

\* The next step of invocation i, whichever it is.
Invocation(i) ==
    /\ i \in Ids
    /\ \/ ParseEth(i)
       \/ ParseIp(i)
       \/ ParseTransport(i)
       \/ Reserve(i)
       \/ WriteField(i)
       \/ Submit(i)
       \/ Finish(i)

\* A burst of frames of one kind, all with an event or all too short, one
\* for each CPU, on an empty ring or on a full one.
InitLive ==
    /\ littleEndian \in BOOLEAN
    /\ arrivals \in {[k \in 1..NumProducers |-> f] : f \in ConcFrames}
    /\ EmptyRing \/ FullRing

\* An XDP program runs to its return on the CPU that received the frame, so
\* while invocations are under way one of them takes a step.  Nothing makes
\* a frame arrive, nothing makes the user-space consumer read, and no
\* invocation is promised a step before another.
SpecLive == InitLive /\ [][Next]_vars /\ WF_vars(\E i \in Ids : Invocation(i))

\* ------------------------------------------------------------- properties
AllWritten(r) == \A n \in FieldNames : r.ev[n] # NULL
NoneWritten(r) == \A n \in FieldNames : r.ev[n] = NULL
\* The invocation's reserve returned "no slot".
FailedReserve(r) == r.reserves = 1 /\ r.event = NULL
\* Bytes of the data area not taken by reserved or unread records.
FreeBytes == max_entries - (producer_pos - consumer_pos)
NoRoom == FreeBytes < RecordLen(sizeof_xdp_event)
\* Invocation i takes a step.
Steps(i) == inv'[i] # inv[i]

\* C1: every invocation that has returned has returned the verdict PASS, and
\* no invocation holds any other verdict: whatever the frame, whether the
\* parse stopped early, and whether the reserve found a slot or a full ring.
VerdictAlwaysPass ==
    \A i \in Ids : inv[i].verdict = IF inv[i].pc = "done" THEN XDP_PASS ELSE NoVerdict

\* C1 witness: an invocation has returned PASS after its reserve failed on
\* the full ring.
VerdictPassAfterFailedReserve ==
    \E i \in Ids : /\ inv[i].pc = "done"
                   /\ FailedReserve(inv[i])
                   /\ inv[i].verdict = XDP_PASS

\* C2: every frame byte an invocation has read lies inside the frame, and
\* inside a byte range [lo, hi) that a passed bounds check of that
\* invocation has shown to end at or before the frame's end.
BoundsSafety ==
    \A i \in Ids :
        /\ \A r \in inv[i].proven : 0 <= r[1] /\ r[2] <= inv[i].frame.len
        /\ \A b \in inv[i].reads :
              /\ 0 <= b /\ b < inv[i].frame.len
              /\ \E r \in inv[i].proven : r[1] <= b /\ b < r[2]

\* C2 witness: the ports of a TCP header behind the longest IPv4 header
\* (ihl = 15) have been read, at the bytes 74..77 of a 94-byte frame.
PortsReadBehindLongestHeader ==
    \E i \in Ids : /\ inv[i].frame.ihl = 15
                   /\ inv[i].frame.len = ETH_HLEN + 15 * 4 + sizeof_tcphdr
                   /\ (ETH_HLEN + 15 * 4 + 3) \in inv[i].reads

\* What holds in every state, and of every step, for failed reserve.
ReserveFailureState ==
    \A i \in Ids :
        /\ inv[i].reserves <= 1
        /\ FailedReserve(inv[i]) =>
              /\ NoneWritten(inv[i])
              /\ inv[i].commits = 0
              /\ inv[i].pc \in {"ret", "done"}
              /\ inv[i].pc = "done" => inv[i].verdict = XDP_PASS

ReserveFailureStep ==
    \A i \in Ids :
        /\ (inv[i].pc = "reserve" /\ NoRoom /\ Steps(i)) =>
              /\ FailedReserve(inv'[i])
              /\ inv'[i].pc = "ret"
              /\ ring' = ring
              /\ delivered' = delivered /\ commitLog' = commitLog
              /\ \A j \in Ids \ {i} : inv'[j] = inv[j]
        /\ (FailedReserve(inv[i]) /\ Steps(i)) =>
              /\ ring' = ring
              /\ inv'[i].pc = "done" /\ inv'[i].verdict = XDP_PASS

\* C3: a reserve that finds fewer free bytes than a record needs fails at
\* once and changes nothing of the ring, of the consumer's history or of any
\* other invocation; the invocation calls reserve once only, writes no
\* field, commits nothing and goes on to return PASS.
ReserveFailureLeavesQueue == []ReserveFailureState /\ [][ReserveFailureStep]_vars

\* C3 witness: a reserve has failed while the ring held committed records
\* and another producer's outstanding reservation.
FailedReserveBesideOutstanding ==
    \E i, j \in Ids : /\ FailedReserve(inv[i])
                      /\ inv[j].pc = "write"
                      /\ commitLog # << >>

\* The records of the ring, by the invocation that reserved them.
Committed(i) == inv[i].commits = 1
\* Reserved and not yet taken by the consumer: outstanding or unread.
Live == {i \in Ids : inv[i].event # NULL /\ inv[i].event >= consumer_pos}
Unread == {i \in Live : Committed(i)}
\* The physical bytes of the record at logical position pos.
ByteRange(pos) == {Phys(pos + b) : b \in 0..(RecordLen(sizeof_xdp_event) - 1)}
Header(mem, pos) == ReadCell(mem, Phys(pos))
CommittedHeader == [v |-> sizeof_xdp_event, busy |-> FALSE]
DeliveredAt(pos) == {k \in 1..Len(delivered) : delivered[k].pos = pos}
\* The place in the order of commits of the record at logical position pos.
CommitIndex(pos) == CHOOSE k \in 1..Len(commitLog) : inv[commitLog[k]].event = pos

\* C4: the producers that reserved and committed a record account for
\* exactly the records the consumer can observe: each committed record is
\* either still in the ring, readable and equal to what its producer wrote,
\* or has been delivered exactly once, equal to what its producer wrote;
\* nothing else is ever delivered.
IntactRecords ==
    /\ \A k \in 1..Len(delivered) :
          \E i \in Ids : /\ inv[i].event = delivered[k].pos
                         /\ Committed(i)
                         /\ delivered[k].ev = inv[i].ev
    /\ \A i \in Ids : Committed(i) =>
          IF i \in Unread
            THEN /\ Sample(data, inv[i].event) = inv[i].ev
                 /\ Header(data, inv[i].event) = CommittedHeader
                 /\ DeliveredAt(inv[i].event) = {}
            ELSE Cardinality(DeliveredAt(inv[i].event)) = 1
    /\ Len(delivered) + Cardinality(Unread) = Cardinality({i \in Ids : Committed(i)})

\* C4 witness: two producers whose reserve..commit sections overlapped in
\* time (the later reservation was committed first) have both returned, and
\* the consumer has drained the ring and holds as many records as commits.
ConcurrentRecordsAllDelivered ==
    /\ Running = {}
    /\ consumer_pos = producer_pos
    /\ Len(delivered) = Len(commitLog)
    /\ \E a, b \in 1..Len(commitLog) :
          a < b /\ inv[commitLog[a]].event > inv[commitLog[b]].event

\* What holds in every state, and of every step, for consumer reading committed records only.
NoUncommittedReadState ==
    \A k \in 1..Len(delivered) :
        \E i \in Ids : /\ inv[i].event = delivered[k].pos
                       /\ Committed(i)
                       /\ AllWritten(inv[i])
                       /\ \E c \in 1..Len(commitLog) : commitLog[c] = i

NoUncommittedReadStep ==
    delivered' # delivered =>
        \E i \in Ids : /\ inv[i].event = consumer_pos
                       /\ Committed(i)
                       /\ AllWritten(inv[i])
                       /\ inv[i].pc \in {"ret", "done"}
                       /\ delivered' = Append(delivered,
                                              [pos |-> consumer_pos, ev |-> inv[i].ev])

\* C5: whatever the consumer has read was committed, with all ten fields
\* written, before the read: a read takes the record at the consumer
\* position only if its producer has written every field and submitted it.
NoUncommittedRead == []NoUncommittedReadState /\ [][NoUncommittedReadStep]_vars

\* C5 witness: the consumer has read a record while a producer that has
\* written only some of its fields is stopped between reserve and commit.
ReadBesidePartialRecord ==
    /\ Len(delivered) >= 1
    /\ \E j \in Ids : /\ inv[j].pc = "write"
                      /\ inv[j].field > 1
                      /\ ~AllWritten(inv[j])

DisjointSlotsState ==
    \A i, j \in Live :
        i # j => ByteRange(inv[i].event) \cap ByteRange(inv[j].event) = {}

DisjointSlotsStep ==
    \A i \in Ids : (inv[i].pc = "write" /\ Steps(i)) =>
        /\ \A a \in DOMAIN data' :
              ReadCell(data', a) # ReadCell(data, a) => a \in ByteRange(inv[i].event)
        /\ \A j \in Live \ {i} :
              /\ Sample(data', inv[j].event) = Sample(data, inv[j].event)
              /\ Header(data', inv[j].event) = Header(data, inv[j].event)

\* C7: the byte ranges of any two records that are reserved and not yet
\* read are disjoint, and an assignment to a field of one producer's
\* record changes bytes of that record only: the header and the sample of
\* every other live record stay what they were.
DisjointSlots == []DisjointSlotsState /\ [][DisjointSlotsStep]_vars

\* C7 witness: two records are live, one of them wraps around the end of the
\* data area and its producer is in the middle of its field writes.
TwoLiveRecordsOneWrapping ==
    \E i, j \in Live :
        /\ i # j
        /\ inv[i].pc = "write" /\ inv[i].field > 1
        /\ Phys(inv[i].event) + RecordLen(sizeof_xdp_event) > max_entries

\* What holds in every state, and of every step, for no eviction.
NoEvictionState ==
    /\ \A i \in Unread : /\ Sample(data, inv[i].event) = inv[i].ev
                         /\ Header(data, inv[i].event) = CommittedHeader
    /\ \A i \in Ids : (Committed(i) /\ i \notin Unread) =>
          \E k \in 1..Len(delivered) :
              delivered[k] = [pos |-> inv[i].event, ev |-> inv[i].ev]
    /\ \A i \in Ids : FailedReserve(inv[i]) => ~Committed(i)

NoEvictionStep ==
    /\ \A i \in Unread :
          IF inv[i].event >= consumer_pos'
            THEN /\ Sample(data', inv[i].event) = Sample(data, inv[i].event)
                 /\ Header(data', inv[i].event) = Header(data, inv[i].event)
                 /\ inv'[i].ev = inv[i].ev
            ELSE delivered' = Append(delivered, [pos |-> inv[i].event, ev |-> inv[i].ev])
    /\ (inv' # inv) => (consumer_pos' = consumer_pos /\ delivered' = delivered)

\* C8: a committed record stays in the ring, header and contents unchanged,
\* until the consumer reads it, and the consumer then receives it as it was
\* committed; no step of a producer moves the consumer position, and the
\* invocation whose reserve fails on the full ring is the one that leaves
\* no record.
NoEviction == []NoEvictionState /\ [][NoEvictionStep]_vars

\* C8 witness: the ring is full of committed, unread records and a reserve
\* has failed on it.
FullOfUnreadAndReserveFailed ==
    /\ Cardinality(Unread) = FillCount
    /\ \E i \in Ids : FailedReserve(inv[i])

\* ------------------------------------------------------------- properties of the decoder
\* The transport header of f would end behind the end of the frame, after
\* the Ethernet and the IPv4 header were accepted.
TruncatedTransport(f) ==
    /\ f.ethType = ETH_P_IP
    /\ f.len >= 34
    /\ \/ f.proto = 6 /\ 14 + f.ihl * 4 + 20 > f.len
       \/ f.proto = 17 /\ 14 + f.ihl * 4 + 8 > f.len

\* What holds in every state, and of every step, for truncated transport headers.
TruncatedNoEventState ==
    \A i \in Ids : TruncatedTransport(inv[i].frame) =>
        /\ inv[i].reserves = 0
        /\ inv[i].event = NULL
        /\ NoneWritten(inv[i])
        /\ inv[i].commits = 0
        /\ inv[i].pc \in {"eth", "ip", "l4", "done"}

TruncatedNoEventStep ==
    \A i \in DOMAIN inv' :
        (TruncatedTransport(inv'[i].frame) /\ (i \notin Ids \/ inv'[i] # inv[i])) =>
            /\ ring' = ring
            /\ delivered' = delivered
            /\ commitLog' = commitLog

\* C9: an invocation on a frame with a truncated transport header never
\* calls reserve, holds no slot, writes no field, commits nothing, and none
\* of its steps changes the ring or what the consumer has received.
TruncatedTransportNoEvent == []TruncatedNoEventState /\ [][TruncatedNoEventStep]_vars

\* C9 witness: an invocation has returned on a TCP frame whose IPv4 header
\* is complete and whose TCP header lacks its last byte.
TruncatedTcpReturned ==
    \E i \in Ids : /\ inv[i].pc = "done"
                   /\ inv[i].frame.proto = 6
                   /\ inv[i].frame.ihl = 5
                   /\ inv[i].frame.len = 53
                   /\ inv[i].frame.ethType = ETH_P_IP

\* C10 as stated: in every event, eth_proto[0] is the high byte and
\* eth_proto[1] the low byte of the Ethernet type as it appears on the wire.
EthProtoInWireOrder ==
    \A i \in Ids :
        /\ inv[i].ev["eth_proto0"] # NULL =>
              inv[i].ev["eth_proto0"] = inv[i].frame.ethType \div 256
        /\ inv[i].ev["eth_proto1"] # NULL =>
              inv[i].ev["eth_proto1"] = inv[i].frame.ethType % 256

\* ------------------------------------------------------------- the contents of events
\* The frame as its sender built it: the 16-bit big-endian number at off,
\* and the offset of the transport header behind ihl 32-bit words.
WireU16(f, off) == 256 * FrameByte(f, off) + FrameByte(f, off + 1)
WireTransportOff(f) == 14 + f.ihl * 4
\* The byte at offset j of the n-byte host integer v, in the host's memory.
HostByte(le, v, j, n) ==
    IF le THEN (v \div (256 ^ j)) % 256
          ELSE (v \div (256 ^ (n - 1 - j))) % 256
\* The 4 bytes of the host integer v are the frame's bytes off..off+3.
RawCopy(le, v, f, off) == \A j \in 0..3 : HostByte(le, v, j, 4) = FrameByte(f, off + j)

\* An IPv4 frame with a complete IPv4 header, protocol proto, and a complete
\* transport header of size bytes behind ihl words.
CompleteTransport(f, proto, size) ==
    /\ f.ethType = 2048
    /\ f.len >= 34
    /\ f.proto = proto
    /\ WireTransportOff(f) + size <= f.len

\* The events of invocation i that the consumer has received.
Received(i) == {delivered[k].ev : k \in DeliveredAt(inv[i].event)}
\* The event of invocation i as written so far, and as received.
EventsOf(i) == {inv[i].ev} \cup (IF inv[i].event = NULL THEN {} ELSE Received(i))

\* Invocation i, at its reserve with room for a record, takes the slot.
ReserveSucceeds(i) ==
    (inv[i].pc = "reserve" /\ ~NoRoom /\ Steps(i)) => inv'[i].event # NULL
\* Invocation i, once returned with a slot, has written and committed its event.
EmittedWhenDone(i) ==
    inv[i].pc = "done" =>
        /\ inv[i].reserves = 1
        /\ inv[i].event # NULL => AllWritten(inv[i]) /\ Committed(i)

TcpEventState ==
    \A i \in Ids : CompleteTransport(inv[i].frame, 6, 20) =>
        /\ EmittedWhenDone(i)
        /\ inv[i].pc \in {"write", "submit", "ret", "done"} =>
              /\ inv[i].src_port = WireU16(inv[i].frame, WireTransportOff(inv[i].frame))
              /\ inv[i].dst_port = WireU16(inv[i].frame, WireTransportOff(inv[i].frame) + 2)
        /\ \A e \in EventsOf(i) :
              /\ e["protocol"] # NULL => e["protocol"] = 6
              /\ e["src_ip"] # NULL => RawCopy(littleEndian, e["src_ip"], inv[i].frame, 26)
              /\ e["dst_ip"] # NULL => RawCopy(littleEndian, e["dst_ip"], inv[i].frame, 30)
              /\ e["src_port"] # NULL =>
                    e["src_port"] = WireU16(inv[i].frame, WireTransportOff(inv[i].frame))
              /\ e["dst_port"] # NULL =>
                    e["dst_port"] = WireU16(inv[i].frame, WireTransportOff(inv[i].frame) + 2)

TcpEventStep ==
    \A i \in Ids : CompleteTransport(inv[i].frame, 6, 20) => ReserveSucceeds(i)

\* C11: an invocation on an IPv4 frame with protocol TCP and a complete
\* 20-byte TCP header at 14 + ihl*4 reaches its reserve, takes a slot
\* whenever the ring has room for a record, and writes and commits an event
\* with protocol 6, with src_ip and dst_ip holding in memory the four bytes
\* of saddr and of daddr in the order of the wire, and with src_port and
\* dst_port equal to the numbers of the header's big-endian port fields;
\* the consumer receives that event unchanged.
TcpEventReproducesFrame == []TcpEventState /\ [][TcpEventStep]_vars

\* C11 witness: on a little-endian host the consumer has received the event
\* of a TCP frame whose TCP header follows an IPv4 header with options
\* (ihl = 7) and ends with the frame.
TcpEventReceivedLittleEndian ==
    \E i \in Ids : /\ littleEndian
                   /\ inv[i].frame.proto = 6
                   /\ inv[i].frame.ihl = 7
                   /\ inv[i].frame.len = 14 + 7 * 4 + 20
                   /\ inv[i].event # NULL
                   /\ Received(i) # {}

UdpEventState ==
    /\ \A i \in Ids : CompleteTransport(inv[i].frame, 17, 8) =>
          /\ EmittedWhenDone(i)
          /\ \A e \in EventsOf(i) :
                /\ e["protocol"] # NULL => e["protocol"] = 17
                /\ e["src_port"] # NULL =>
                      e["src_port"] = WireU16(inv[i].frame, WireTransportOff(inv[i].frame))
                /\ e["dst_port"] # NULL =>
                      e["dst_port"] = WireU16(inv[i].frame, WireTransportOff(inv[i].frame) + 2)
    /\ \A i \in Ids : \A e \in EventsOf(i) :
          e["pkt_len"] # NULL => e["pkt_len"] = inv[i].frame.len

UdpEventStep ==
    \A i \in Ids : CompleteTransport(inv[i].frame, 17, 8) => ReserveSucceeds(i)

\* C12: an invocation on an IPv4 frame with protocol UDP and a complete
\* 8-byte UDP header at 14 + ihl*4 takes a slot whenever the ring has room
\* for a record, and writes and commits an event with protocol 17 and with
\* src_port and dst_port equal to the numbers of the header's big-endian
\* port fields; and every event, of whatever protocol, written or received,
\* has pkt_len equal to the length of the whole frame.
UdpEventAndPktLen == []UdpEventState /\ [][UdpEventStep]_vars

\* C12 witness: the consumer has received the event of the 60-byte UDP
\* frame from port 53 to port 12345, with protocol 17, src_port 53,
\* dst_port 12345 and pkt_len 60.
DnsEventReceived ==
    \E i \in Ids : /\ inv[i].frame = DnsFrame
                   /\ inv[i].event # NULL
                   /\ \E e \in Received(i) : /\ e["protocol"] = 17
                                             /\ e["src_port"] = 53
                                             /\ e["dst_port"] = 12345
                                             /\ e["pkt_len"] = 60

\* An IPv4 frame with a complete IPv4 header and a protocol other than TCP
\* and UDP.
OtherProtocol(f) ==
    /\ f.ethType = 2048
    /\ f.len >= 34
    /\ f.proto \notin {6, 17}

OtherProtocolState ==
    \A i \in Ids : OtherProtocol(inv[i].frame) =>
        /\ EmittedWhenDone(i)
        /\ inv[i].proven \subseteq {<< 0, 14 >>, << 14, 34 >>}
        /\ 14 \notin inv[i].reads
        /\ inv[i].src_port = 0 /\ inv[i].dst_port = 0
        /\ \A e \in EventsOf(i) :
              /\ e["protocol"] # NULL => e["protocol"] = inv[i].frame.proto
              /\ e["src_port"] # NULL => e["src_port"] = 0
              /\ e["dst_port"] # NULL => e["dst_port"] = 0

OtherProtocolStep ==
    \A i \in Ids : OtherProtocol(inv[i].frame) => ReserveSucceeds(i)

\* C13: an invocation on an IPv4 frame with a complete 20-byte IPv4 header
\* and a protocol other than 6 and 17 takes a slot whenever the ring has
\* room for a record, and writes and commits an event with src_port 0,
\* dst_port 0 and the frame's protocol number; it makes no bounds check
\* beyond those of the Ethernet and the IPv4 header and never reads ihl,
\* so the event is emitted whatever ihl is.
OtherProtocolEvent == []OtherProtocolState /\ [][OtherProtocolStep]_vars

\* C13 witness: the consumer has received the event, with ports 0 and
\* protocol 1, of a 34-byte ICMP frame whose ihl of 15 puts the transport
\* header at 74, behind the end of the frame.
IcmpEventBeyondFrame ==
    \E i \in Ids : /\ inv[i].frame.proto = 1
                   /\ inv[i].frame.ihl = 15
                   /\ inv[i].frame.len = 34
                   /\ inv[i].event # NULL
                   /\ \E e \in Received(i) : /\ e["protocol"] = 1
                                             /\ e["src_port"] = 0
                                             /\ e["dst_port"] = 0

\* ------------------------------------------------------------- frames without an event
\* Invocation i has held no slot, written no field and committed nothing.
NoEventOf(i) ==
    /\ inv[i].reserves = 0
    /\ inv[i].event = NULL
    /\ NoneWritten(inv[i])
    /\ inv[i].commits = 0
\* Invocation i starts or takes a step.
Acts(i) == i \notin Ids \/ inv'[i] # inv[i]
\* The ring and what the consumer has seen of it stay as they are.
QueueUnchanged ==
    /\ ring' = ring
    /\ delivered' = delivered
    /\ commitLog' = commitLog

NotIPv4State ==
    \A i \in Ids : inv[i].frame.ethType # 2048 =>
        /\ NoEventOf(i)
        /\ inv[i].pc \in {"eth", "ret", "done"}
        /\ inv[i].reads \subseteq {12, 13}
        /\ inv[i].proven \subseteq {<< 0, 14 >>}

NotIPv4Step ==
    \A i \in DOMAIN inv' :
        (inv'[i].frame.ethType # 2048 /\ Acts(i)) => QueueUnchanged

\* C14: an invocation on a frame whose Ethernet type is not 0x0800, of
\* whatever length and content, never calls reserve, holds no slot, writes
\* no field and commits nothing; it goes from the Ethernet header straight
\* to its return, reads no byte but the two of the Ethernet type and makes
\* no bounds check but the first; none of its steps changes the ring or
\* what the consumer has received.
NotIPv4NoEvent == []NotIPv4State /\ [][NotIPv4Step]_vars

\* C14 witness: on a little-endian host an invocation has returned on a
\* 94-byte frame of Ethernet type 0x0008, whose type bytes are those of
\* IPv4 swapped, after reading the type.
SwappedTypeFrameReturned ==
    \E i \in Ids : /\ littleEndian
                   /\ inv[i].frame.ethType = 8
                   /\ inv[i].frame.len = 94
                   /\ inv[i].reads = {12, 13}
                   /\ inv[i].pc = "done"

ShortFrameState ==
    \A i \in Ids :
        /\ inv[i].frame.len < 14 =>
              /\ NoEventOf(i)
              /\ inv[i].reads = {}
              /\ inv[i].proven = {}
              /\ inv[i].pc \in {"eth", "done"}
        /\ (inv[i].frame.ethType = 2048 /\ inv[i].frame.len < 34) =>
              /\ NoEventOf(i)
              /\ inv[i].pc \in {"eth", "ip", "done"}

ShortFrameStep ==
    \A i \in DOMAIN inv' :
        /\ (inv'[i].frame.len < 14 /\ Acts(i)) => QueueUnchanged
        /\ (inv'[i].frame.ethType = 2048 /\ inv'[i].frame.len < 34 /\ Acts(i)) =>
              QueueUnchanged

\* C15: an invocation on a frame of fewer than 14 bytes, the empty frame
\* included, returns from the first bounds check: it reads no byte of the
\* frame, never calls reserve, holds no slot, writes no field and commits
\* nothing, and none of its steps changes the ring or what the consumer has
\* received; and an invocation on an IPv4-typed frame of fewer than 34
\* bytes likewise returns from the second bounds check without an event.
ShortFrameNoEvent == []ShortFrameState /\ [][ShortFrameStep]_vars

\* C15 witness: an invocation has returned PASS on a 13-byte frame, one
\* byte short of an Ethernet header, without having read a byte of it.
ShortFrameReturned ==
    \E i \in Ids : /\ inv[i].pc = "done"
                   /\ inv[i].verdict = XDP_PASS
                   /\ inv[i].frame.len = 13
                   /\ inv[i].reads = {}

\* ------------------------------------------------------------- termination
\* The most steps an invocation at r still has to its return.
StepsLeft(r) ==
    CASE r.pc = "eth"     -> 16
      [] r.pc = "ip"      -> 15
      [] r.pc = "l4"      -> 14
      [] r.pc = "reserve" -> 13
      [] r.pc = "write"   -> 13 - r.field
      [] r.pc = "submit"  -> 2
      [] r.pc = "ret"     -> 1
      [] r.pc = "done"    -> 0

\* Every running invocation can take its next step, whatever the state of
\* the ring, of the consumer and of the other invocations.
NeverWaits == \A i \in Running : ENABLED Invocation(i)
\* Every step of an invocation brings it nearer to its return.
EveryStepNearer ==
    \A i \in Ids : Steps(i) =>
        /\ StepsLeft(inv'[i]) < StepsLeft(inv[i])
        /\ inv'[i].pc = "done" => inv'[i].verdict = XDP_PASS
\* From some time on, every started invocation has returned.
AllReturn == <>[](Running = {})

\* C16: an invocation that has not returned can always take its next step,
\* whether or not the ring has room, the consumer reads, or another
\* producer stands between its reserve and its commit; each of its steps
\* leaves it fewer steps to its return, of which there are 16 at most, and
\* the last of them returns PASS; so, the invocations being scheduled,
\* there comes a time from which every started invocation has returned.
InvocationTerminates ==
    /\ []NeverWaits
    /\ [][EveryStepNearer]_vars
    /\ AllReturn

\* C16 witness: an invocation has returned, its reserve having found no
\* room, while the ring still has no room, the consumer has left a
\* committed record unread, and an invocation started before it stands
\* between its reserve and its commit.
ReturnedBesideStalledProducer ==
    \E i, j \in Ids : /\ j < i
                      /\ inv[i].pc = "done"
                      /\ FailedReserve(inv[i])
                      /\ inv[j].pc \in {"write", "submit"}
                      /\ NoRoom
                      /\ Unread # {}

\* ------------------------------------------------------------- acceptance of TCP and UDP
\* The size of the transport header of protocol p.
WireHeaderSize(p) == IF p = 6 THEN 20 ELSE 8
\* An IPv4 frame with protocol TCP or UDP.
TcpOrUdp(f) == f.ethType = 2048 /\ f.proto \in {6, 17}
\* The frame holds the 20-byte IPv4 header and, behind ihl words, the whole
\* transport header of its protocol.
Accepted(f) ==
    /\ f.len >= 34
    /\ 14 + f.ihl * 4 + WireHeaderSize(f.proto) <= f.len

AcceptanceState ==
    \A i \in Ids : TcpOrUdp(inv[i].frame) =>
        /\ inv[i].pc = "done" => (inv[i].reserves = 1 <=> Accepted(inv[i].frame))
        /\ inv[i].reserves = 1 => Accepted(inv[i].frame)
        /\ inv[i].event # NULL => Accepted(inv[i].frame)
        /\ Accepted(inv[i].frame) =>
              /\ EmittedWhenDone(i)
              /\ \A e \in EventsOf(i) :
                    /\ e["src_port"] # NULL =>
                          e["src_port"] = WireU16(inv[i].frame, 14 + inv[i].frame.ihl * 4)
                    /\ e["dst_port"] # NULL =>
                          e["dst_port"] = WireU16(inv[i].frame, 14 + inv[i].frame.ihl * 4 + 2)

AcceptanceStep ==
    \A i \in Ids : (TcpOrUdp(inv[i].frame) /\ Accepted(inv[i].frame)) => ReserveSucceeds(i)

\* C17: an invocation on an IPv4 frame with protocol TCP or UDP calls
\* reserve, and with room in the ring writes and commits an event, if and
\* only if the frame has at least 34 bytes and 14 + ihl*4 plus the size of
\* the transport header (20 for TCP, 8 for UDP) does not exceed its length,
\* for every ihl from 0 to 15; an ihl below 5 is accepted like any other,
\* and the ports of the event are then the two 16-bit numbers at 14 + ihl*4,
\* inside the fixed IPv4 header.
ExactAcceptance == []AcceptanceState /\ [][AcceptanceStep]_vars

\* C17 witness: the consumer has received the event of a 34-byte UDP frame
\* with ihl = 0, whose source port is the number made of the first two
\* bytes of the IPv4 header and whose destination port that of the next two.
EventWithPortsFromIpHeader ==
    \E i \in Ids : /\ inv[i].frame.proto = 17
                   /\ inv[i].frame.ihl = 0
                   /\ inv[i].frame.len = 34
                   /\ inv[i].event # NULL
                   /\ \E e \in Received(i) :
                         /\ e["src_port"] = 256 * FrameByte(inv[i].frame, 14)
                                            + FrameByte(inv[i].frame, 15)
                         /\ e["dst_port"] = 256 * FrameByte(inv[i].frame, 16)
                                            + FrameByte(inv[i].frame, 17)

\* ------------------------------------------------------------- reserve and commit
\* Every bounds check that the frame of r calls for has passed.
ParsingPassed(r) ==
    /\ {<< 0, 14 >>, << 14, 34 >>} \subseteq r.proven
    /\ r.frame.proto \in {6, 17} =>
          << 14 + r.frame.ihl * 4, 14 + r.frame.ihl * 4 + WireHeaderSize(r.frame.proto) >>
              \in r.proven
\* The reservations that no commit has followed yet.
Uncommitted == {a \in DOMAIN data : data[a].busy}

PairingState ==
    /\ \A i \in Ids :
          /\ inv[i].reserves <= 1
          /\ inv[i].commits <= 1
          /\ inv[i].pc \in {"eth", "ip", "l4", "reserve"} => inv[i].reserves = 0
          /\ inv[i].reserves = 1 => ParsingPassed(inv[i])
          /\ inv[i].event # NULL => inv[i].reserves = 1
          /\ inv[i].commits = 1 =>
                /\ inv[i].event # NULL
                /\ AllWritten(inv[i])
                /\ inv[i].pc \in {"ret", "done"}
          /\ (inv[i].event # NULL /\ inv[i].pc \in {"ret", "done"}) => inv[i].commits = 1
          /\ (inv[i].event # NULL /\ inv[i].commits = 0) <=> inv[i].pc \in {"write", "submit"}
          /\ Cardinality({k \in 1..Len(commitLog) : commitLog[k] = i}) = inv[i].commits
          /\ inv[i].event # NULL => Cardinality(DeliveredAt(inv[i].event)) <= 1
    /\ Cardinality(Uncommitted) = Cardinality({i \in Ids : inv[i].pc \in {"write", "submit"}})
    /\ \A i \in Ids : inv[i].pc \in {"write", "submit"} => Phys(inv[i].event) \in Uncommitted
    /\ Running = {} => Uncommitted = {}
    /\ producer_pos = RecordLen(sizeof_xdp_event) * Cardinality({i \in Ids : inv[i].event # NULL})
    /\ Len(delivered) <= Cardinality(Ids)

PairingStep ==
    \A i \in Ids :
        /\ inv'[i].reserves # inv[i].reserves => inv[i].pc = "reserve"
        /\ inv'[i].commits # inv[i].commits =>
              /\ AllWritten(inv[i])
              /\ Uncommitted' = Uncommitted \ {Phys(inv[i].event)}
              /\ Phys(inv[i].event) \in Uncommitted
              /\ Len(commitLog') = Len(commitLog) + 1
        /\ (inv[i].commits = 1 /\ Steps(i)) => QueueUnchanged

\* C18: an invocation calls reserve once at most, and not before every
\* bounds check its frame calls for has passed; an invocation that holds a
\* slot commits it exactly once, after it has written all ten fields and
\* before it returns, and its commit clears the busy bit of its own slot
\* and of no other, after which it touches the ring no more.  The busy
\* headers in the ring are those of the invocations between reserve and
\* commit, so when no invocation is under way there is none; and the ring
\* has received one record for each invocation that holds a slot, no more.
ReserveCommitPairing == []PairingState /\ [][PairingStep]_vars

\* C18 witness: all frames have arrived and every invocation has returned,
\* two of them having committed a record and one having found no room.
AllReturnedTwoCommitted ==
    /\ arrivals = << >>
    /\ Ids # {}
    /\ Running = {}
    /\ Len(commitLog) = 2
    /\ \E i \in Ids : FailedReserve(inv[i])
    /\ Uncommitted = {}

\* ------------------------------------------------------------- timestamps
\* The invocation that reserved the k-th record the consumer received.
ProducerOf(k) == CHOOSE i \in Ids : inv[i].event = delivered[k].pos
\* The timestamp of the k-th record the consumer received.
DeliveredTimestamp(k) == delivered[k].ev["timestamp"]

Unstamped(i) == inv[i].event # NULL /\ inv[i].ev["timestamp"] = NULL

TimestampState ==
    /\ \A i \in Ids :
          /\ inv[i].ev["timestamp"] # NULL =>
                /\ inv[i].event # NULL
                /\ inv[i].ev["timestamp"] <= clock
          /\ inv[i].ev["timestamp"] = NULL => inv[i].commits = 0
          /\ inv[i].pc \in {"eth", "ip", "l4", "reserve"} => inv[i].ev["timestamp"] = NULL
          /\ Unstamped(i) <=> inv[i].resClock # NULL
          /\ Unstamped(i) => inv[i].resClock <= clock
    /\ \A i, j \in Ids :
          (i # j /\ inv[i].ev["timestamp"] # NULL) =>
              inv[i].ev["timestamp"] # inv[j].ev["timestamp"]
    /\ \A k \in 1..Len(delivered) :
          DeliveredTimestamp(k) = inv[ProducerOf(k)].ev["timestamp"]

TimestampStep ==
    \A i \in Ids :
        /\ inv'[i].ev["timestamp"] # inv[i].ev["timestamp"] =>
              /\ inv[i].ev["timestamp"] = NULL
              /\ inv[i].pc = "write" /\ inv[i].event # NULL /\ inv[i].commits = 0
              /\ clock' > clock
              /\ inv'[i].ev["timestamp"] = clock'
              /\ inv[i].resClock < inv'[i].ev["timestamp"]
              /\ \A j \in Ids \ {i} :
                    (inv[j].ev["timestamp"] # NULL /\ inv[j].ev["timestamp"] <= inv[i].resClock) =>
                        /\ inv[j].event < inv[i].event
                        /\ inv[j].ev["timestamp"] < inv'[i].ev["timestamp"]
        /\ (inv[i].event = NULL /\ inv'[i].event # NULL) =>
              /\ inv'[i].resClock = clock
              /\ \A j \in Ids \ {i} :
                    inv[j].ev["timestamp"] # NULL => inv[j].ev["timestamp"] <= inv'[i].resClock

====
